---- MODULE Spec2Model ----
(***************************************************************************)
(* A model of the findroot solvers: Brentq (src/src/brent.rs),             *)
(* NewtonRaphson (newton.rs), Sand (sand.rs), Steffensen (steffensen.rs),  *)
(* Wegstein (wegstein.rs), Broyden (broyden.rs) and the Jacobian           *)
(* capabilities (jacobian.rs).                                             *)
(*                                                                         *)
(* f64 is modelled as a bounded fixed-point number: the integer v stands   *)
(* for v / Scale, every operation rounds to the nearest representable      *)
(* value (ties to even), a result beyond MaxF overflows to an infinity and *)
(* the invalid operations (0/0, inf-inf, 0*inf) give NaN, with which every *)
(* ordered comparison is false.  Signed zeros are not distinguished.       *)
(***************************************************************************)
EXTENDS Integers, Sequences, FiniteSets, TLC

\* ------------------------------------------------------------------ bounds
\* The fixed-point unit: the integer v stands for the number v / Scale.
Scale == 8
\* The largest finite magnitude; beyond it a result is an infinity.
MaxF == 1000
\* Brentq's maxiter is drawn from 0 .. MaxMaxIter.
MaxMaxIter == 2
\* Bracket endpoints are drawn from the whole numbers -MaxEnd .. MaxEnd.
MaxEnd == 4

\* ------------------------------------------------------------ f64 numbers
PInf == MaxF + 1
NInf == -(MaxF + 1)
NaN == MaxF + 2

F64 == (NInf .. PInf) \cup {NaN}

IsFinite(x) == x >= -MaxF /\ x <= MaxF

\* n / d for d > 0, rounded to the nearest integer, ties to even.
Rnd(n, d) ==
    LET q == n \div d
        r == n % d
    IN  IF 2 * r < d THEN q
        ELSE IF 2 * r > d THEN q + 1
        ELSE IF q % 2 = 0 THEN q ELSE q + 1

\* A finite result out of range overflows to an infinity.
Sat(v) == IF v > MaxF THEN PInf ELSE IF v < -MaxF THEN NInf ELSE v

Sgn(x) == IF x > 0 THEN 1 ELSE IF x < 0 THEN -1 ELSE 0

\* An integer literal of the source (2., 3., 6.) and the literal 0.5.
Lit(n) == n * Scale
Half == Scale \div 2

FNeg(x) == IF x = NaN THEN NaN ELSE -x

FAbs(x) == IF x = NaN THEN NaN ELSE IF x < 0 THEN -x ELSE x

FAdd(x, y) ==
    IF x = NaN \/ y = NaN THEN NaN
    ELSE IF x = PInf THEN (IF y = NInf THEN NaN ELSE PInf)
    ELSE IF x = NInf THEN (IF y = PInf THEN NaN ELSE NInf)
    ELSE IF y = PInf \/ y = NInf THEN y
    ELSE Sat(x + y)

FSub(x, y) == FAdd(x, FNeg(y))

FMul(x, y) ==
    IF x = NaN \/ y = NaN THEN NaN
    ELSE IF ~IsFinite(x) \/ ~IsFinite(y)
         THEN (IF x = 0 \/ y = 0 THEN NaN
               ELSE IF Sgn(x) * Sgn(y) > 0 THEN PInf ELSE NInf)
    ELSE Sat(Rnd(x * y, Scale))

FDiv(x, y) ==
    IF x = NaN \/ y = NaN THEN NaN
    ELSE IF ~IsFinite(x)
         THEN (IF ~IsFinite(y) THEN NaN
               ELSE IF Sgn(x) * (IF y < 0 THEN -1 ELSE 1) > 0 THEN PInf ELSE NInf)
    ELSE IF ~IsFinite(y) THEN 0
    ELSE IF y = 0
         THEN (IF x = 0 THEN NaN ELSE IF x > 0 THEN PInf ELSE NInf)
    ELSE IF y > 0 THEN Sat(Rnd(x * Scale, y))
    ELSE Sat(Rnd(-(x * Scale), -y))

\* f64::max: a NaN operand is ignored.
FMax(x, y) == IF x = NaN THEN y ELSE IF y = NaN THEN x ELSE IF x >= y THEN x ELSE y

\* The ordered comparisons: false as soon as one side is NaN.
FLt(x, y) == x # NaN /\ y # NaN /\ x < y
FLe(x, y) == x # NaN /\ y # NaN /\ x <= y
FGt(x, y) == FLt(y, x)
FGe(x, y) == FLe(y, x)
FEq(x, y) == x # NaN /\ y # NaN /\ x = y
FNe(x, y) == ~FEq(x, y)

\* ----------------------------------------------------- Brentq (brent.rs)
\* The caller's function: Univariate::call.  A function is named by a kind
\* and a parameter k (a fixed-point number).
BrentFuns ==
    { <<kind, k>> : kind \in {"lin", "neglin", "sq", "cube", "step"},
                    k \in {-5, 0, 3, Scale + 3} }
      \cup { <<"const", 0>>, <<"const", 1>>, <<"const", 5>> }

Call(fn, x) ==
    LET kind == fn[1]
        k == fn[2]
    IN  CASE kind = "lin"    -> FSub(x, k)
          [] kind = "neglin" -> FSub(k, x)
          [] kind = "sq"     -> FSub(FMul(x, x), k)
          [] kind = "cube"   -> FSub(FMul(FMul(x, x), x), k)
          [] kind = "step"   -> IF FLt(x, k) THEN -Scale ELSE Scale
          [] OTHER           -> k

\* f64::EPSILON: the gap between 1.0 and the next number, one unit here.
Eps == 1

VARIABLES
    \* Brentq: the solver's fields, the arguments of solve, its locals
    f, self_tol, maxiter, lower_bound, upper_bound,
    a, b, c, fa, fb, fc, d, e, s, p, q, xm, r, tol, iter, jump,
    \* what solve returned ("none" while it runs) and the values it carries
    ret, retv,
    \* the number of calls of f made so far, and the points it was called at
    ncalls, evald,
    \* a Jacobian object, the argument of solve_jacobian and what the call
    \* gave: [ok |-> TRUE, v |-> the vector] or, for an abort, ok |-> FALSE
    jacobian, jac_b, jac_out, jac_pc,
    \* the vector solvers: which one runs, the caller's function, the
    \* arguments of solve and the cap
    solver, fun, init, atol, rtol, tolv, max_iter,
    \* the locals of solve (fx is the residual f and jac the matrix of
    \* NewtonRaphson::solve), the loop index and the position in solve
    x, x_prev, y_prev, y, z, jac_inv, fx, jac, k, pc,
    \* what solve gave (out) and how: "converged", "cap" or a panic
    out, how,
    \* the number of the call (the second one restarts from the first
    \* one's result, kept in first)
    call, first,
    \* history: the pairs <<v, f(v)>> evaluated in this call, the events of
    \* NewtonRaphson::solve, whether a non-finite value was computed
    evals, log, nonfinite

brentVars == <<f, self_tol, maxiter, lower_bound, upper_bound,
               a, b, c, fa, fb, fc, d, e, s, p, q, xm, r, tol, iter, jump,
               ret, retv, ncalls, evald>>

jacVars == <<jacobian, jac_b, jac_out, jac_pc>>

vecVars == <<solver, fun, init, atol, rtol, tolv, max_iter,
             x, x_prev, y_prev, y, z, jac_inv, fx, jac, k, pc,
             out, how, call, first, evals, log, nonfinite>>

vars == <<brentVars, jacVars, vecVars>>

\* No vector solver runs.
VecIdle ==
    /\ solver = "none" /\ fun = [kind |-> "none"]
    /\ init = <<>> /\ atol = <<>> /\ rtol = <<>> /\ tolv = <<>> /\ max_iter = 0
    /\ x = <<>> /\ x_prev = <<>> /\ y_prev = <<>> /\ y = <<>> /\ z = <<>>
    /\ jac_inv = <<>> /\ fx = <<>> /\ jac = <<>> /\ k = 0 /\ pc = "idle"
    /\ out = <<>> /\ how = "none" /\ call = 1 /\ first = <<>>
    /\ evals = {} /\ log = <<>> /\ nonfinite = FALSE

\* No Jacobian call is in progress.
JacIdle ==
    /\ jacobian = [kind |-> "none"] /\ jac_b = <<>>
    /\ jac_out = [ok |-> FALSE, v |-> <<>>] /\ jac_pc = "idle"

BrentInit ==
    /\ f \in BrentFuns
    /\ self_tol \in {0, 1, Half}
    /\ maxiter \in 0 .. MaxMaxIter
    /\ lower_bound \in { Lit(n) : n \in -MaxEnd .. MaxEnd }
    /\ upper_bound \in { Lit(n) : n \in -MaxEnd .. MaxEnd }
    /\ a = 0 /\ b = 0 /\ c = 0 /\ fa = 0 /\ fb = 0 /\ fc = 0
    /\ d = 0 /\ e = 0 /\ s = 0 /\ p = 0 /\ q = 0 /\ xm = 0 /\ r = 0
    /\ tol = 0 /\ iter = 0
    /\ jump = "Entry"
    /\ ret = "none" /\ retv = <<>>
    /\ ncalls = 0 /\ evald = {}

SameSign_ge(u, v) == FGe(FMul(u, v), 0)

\* The bracket check of line 73: fa * fb > 0.
SameSign(u, v) == FGt(FMul(u, v), 0)

\* solve, lines 69-89: the two endpoint evaluations and the sign check.
BrentEntry ==
    /\ jump = "Entry" /\ ret = "none"
    /\ a' = lower_bound
    /\ b' = upper_bound
    /\ fa' = Call(f, lower_bound)
    /\ fb' = Call(f, upper_bound)
    /\ ncalls' = ncalls + 2
    /\ evald' = {lower_bound, upper_bound}
    /\ IF SameSign(fa', fb')
       THEN /\ ret' = "Failed" /\ retv' = <<>>
            /\ UNCHANGED <<jump, tol>>
       ELSE /\ jump' = "L20"
            /\ tol' = FAdd(Lit(1), Eps)
            /\ UNCHANGED <<ret, retv>>
    /\ UNCHANGED <<jacVars, vecVars, f, self_tol, maxiter, lower_bound, upper_bound,
                   c, fc, d, e, s, p, q, xm, r, iter>>

Running(l) == jump = l /\ ret = "none"

Label_L20 ==
    /\ Running("L20")
    /\ c' = a
    /\ fc' = fa
    /\ d' = FSub(b, a)
    /\ e' = d'
    /\ jump' = "L30"
    /\ UNCHANGED <<jacVars, vecVars, f, self_tol, maxiter, lower_bound, upper_bound,
                   a, b, fa, fb, s, p, q, xm, r, tol, iter, ret, retv, ncalls, evald>>

Label_L30 ==
    /\ Running("L30")
    /\ IF FGe(FAbs(fc), FAbs(fb))
       THEN UNCHANGED <<a, b, c, fa, fb, fc>>
       ELSE /\ a' = b
            /\ b' = c
            /\ c' = a'
            /\ fa' = fb
            /\ fb' = fc
            /\ fc' = fa'
    /\ jump' = "L40"
    /\ UNCHANGED <<jacVars, vecVars, f, self_tol, maxiter, lower_bound, upper_bound,
                   d, e, s, p, q, xm, r, tol, iter, ret, retv, ncalls, evald>>

\* The termination test of L40, on given values.
TermTest(xm0, tol0, fb0) == FLe(FAbs(xm0), tol0) \/ FEq(fb0, 0)

CapExceeded_ge(it, cap) == it >= cap

\* The iteration cap of L40.
CapExceeded(it, cap) == it > cap

NotConvergedArgs_bc(a0, b0, c0) == <<b0, c0>>

\* The values Err(NotConverged(..)) carries, line 218.
NotConvergedArgs(a0, b0, c0) == <<a0, b0>>

Label_L40 ==
    /\ Running("L40")
    /\ tol' = FAdd(FMul(FMul(Lit(2), Eps), FAbs(b)), FMul(Half, self_tol))
    /\ xm' = FMul(Half, FSub(c, b))
    /\ IF TermTest(xm', tol', fb)
       THEN jump' = "L150" /\ UNCHANGED <<d, e>>
       ELSE IF FGe(FAbs(e), tol') /\ FGt(fa, fb)
       THEN jump' = "L50" /\ UNCHANGED <<d, e>>
       ELSE /\ d' = xm'
            /\ e' = d'
            /\ jump' = "L110"
    /\ IF CapExceeded(iter, maxiter)
       THEN ret' = "NotConverged" /\ retv' = NotConvergedArgs(a, b, c)
       ELSE UNCHANGED <<ret, retv>>
    /\ UNCHANGED <<jacVars, vecVars, f, self_tol, maxiter, lower_bound, upper_bound,
                   a, b, c, fa, fb, fc, s, p, q, r, iter, ncalls, evald>>

Label_L50 ==
    /\ Running("L50")
    /\ s' = FDiv(fb, fa)
    /\ IF FNe(a, c)
       THEN jump' = "L60" /\ UNCHANGED <<p, q>>
       ELSE /\ p' = FMul(FMul(Lit(2), xm), s')
            /\ q' = FSub(Lit(1), s')
            /\ jump' = "L70"
    /\ UNCHANGED <<jacVars, vecVars, f, self_tol, maxiter, lower_bound, upper_bound,
                   a, b, c, fa, fb, fc, d, e, xm, r, tol, iter, ret, retv, ncalls, evald>>

Label_L60 ==
    /\ Running("L60")
    /\ LET q1 == FDiv(fa, fc)
       IN  /\ r' = FDiv(fb, fc)
           /\ p' = FMul(s, FSub(FMul(FMul(FMul(Lit(2), xm), q1), FSub(q1, r')),
                                FMul(FSub(b, a), FSub(r', Lit(1)))))
           /\ q' = FMul(FMul(FSub(q1, Lit(1)), FSub(r', Lit(1))), FSub(s, Lit(1)))
    /\ jump' = "L70"
    /\ UNCHANGED <<jacVars, vecVars, f, self_tol, maxiter, lower_bound, upper_bound,
                   a, b, c, fa, fb, fc, d, e, s, xm, tol, iter, ret, retv, ncalls, evald>>

Label_L70 ==
    /\ Running("L70")
    /\ IF FLe(p, 0)
       THEN jump' = "L80" /\ UNCHANGED q
       ELSE q' = FNeg(p) /\ jump' = "L90"
    /\ UNCHANGED <<jacVars, vecVars, f, self_tol, maxiter, lower_bound, upper_bound,
                   a, b, c, fa, fb, fc, d, e, s, p, xm, r, tol, iter, ret, retv, ncalls, evald>>

Label_L80 ==
    /\ Running("L80")
    /\ p' = FNeg(p)
    /\ jump' = "L90"
    /\ UNCHANGED <<jacVars, vecVars, f, self_tol, maxiter, lower_bound, upper_bound,
                   a, b, c, fa, fb, fc, d, e, s, q, xm, r, tol, iter, ret, retv, ncalls, evald>>

Label_L90 ==
    /\ Running("L90")
    /\ s' = e
    /\ e' = d
    /\ IF \/ FGe(FMul(Lit(2), p),
                 FSub(FMul(FMul(Lit(3), xm), q), FAbs(FMul(q, tol))))
          \/ FGe(p, FMul(Half, FAbs(FMul(q, s'))))
       THEN jump' = "L100" /\ UNCHANGED d
       ELSE d' = FDiv(p, q) /\ jump' = "L110"
    /\ UNCHANGED <<jacVars, vecVars, f, self_tol, maxiter, lower_bound, upper_bound,
                   a, b, c, fa, fb, fc, p, q, xm, r, tol, iter, ret, retv, ncalls, evald>>

\* The label the arm L100 leaves in jump: the arm assigns none.
AfterL100 == "L100"

Label_L100 ==
    /\ Running("L100")
    /\ d' = xm
    /\ e' = d'
    /\ jump' = AfterL100
    /\ UNCHANGED <<jacVars, vecVars, f, self_tol, maxiter, lower_bound, upper_bound,
                   a, b, c, fa, fb, fc, s, p, q, xm, r, tol, iter, ret, retv, ncalls, evald>>

Label_L110 ==
    /\ Running("L110")
    /\ a' = b
    /\ fa' = fb
    /\ IF FLe(FAbs(d), tol)
       THEN jump' = "L120" /\ UNCHANGED b
       ELSE b' = FAdd(b, d) /\ jump' = "L140"
    /\ UNCHANGED <<jacVars, vecVars, f, self_tol, maxiter, lower_bound, upper_bound,
                   c, fb, fc, d, e, s, p, q, xm, r, tol, iter, ret, retv, ncalls, evald>>

Label_L120 ==
    /\ Running("L120")
    /\ IF FLe(xm, 0)
       THEN jump' = "L130" /\ UNCHANGED b
       ELSE b' = FAdd(b, tol) /\ jump' = "L140"
    /\ UNCHANGED <<jacVars, vecVars, f, self_tol, maxiter, lower_bound, upper_bound,
                   a, c, fa, fb, fc, d, e, s, p, q, xm, r, tol, iter, ret, retv, ncalls, evald>>

Label_L130 ==
    /\ Running("L130")
    /\ b' = FSub(b, tol)
    /\ jump' = "L140"
    /\ UNCHANGED <<jacVars, vecVars, f, self_tol, maxiter, lower_bound, upper_bound,
                   a, c, fa, fb, fc, d, e, s, p, q, xm, r, tol, iter, ret, retv, ncalls, evald>>

Label_L140 ==
    /\ Running("L140")
    /\ fb' = Call(f, b)
    /\ ncalls' = ncalls + 1
    /\ evald' = evald \cup {b}
    /\ iter' = iter + 1
    /\ IF FGt(FMul(fb', FDiv(fc, FAbs(fc))), 0)
       THEN jump' = "L20"
       ELSE jump' = "L30"
    /\ UNCHANGED <<jacVars, vecVars, f, self_tol, maxiter, lower_bound, upper_bound,
                   a, b, c, fa, fc, d, e, s, p, q, xm, r, tol, ret, retv>>

Label_L150 ==
    /\ Running("L150")
    /\ ret' = "Ok"
    /\ retv' = <<b>>
    /\ UNCHANGED <<jacVars, vecVars, f, self_tol, maxiter, lower_bound, upper_bound,
                   a, b, c, fa, fb, fc, d, e, s, p, q, xm, r, tol, iter, jump, ncalls, evald>>

BrentNext ==
    \/ BrentEntry
    \/ Label_L20 \/ Label_L30 \/ Label_L40 \/ Label_L50 \/ Label_L60
    \/ Label_L70 \/ Label_L80 \/ Label_L90 \/ Label_L100 \/ Label_L110
    \/ Label_L120 \/ Label_L130 \/ Label_L140 \/ Label_L150

InitBrent == BrentInit /\ JacIdle /\ VecIdle

SpecBrent == InitBrent /\ [][BrentNext]_vars

\* The loop of solve runs on its own: a step that can be taken is taken.
SpecBrentFair == SpecBrent /\ WF_vars(BrentNext)

\* ------------------------------------------------------------- vectors
\* Array1<f64> / Vec<f64>: a sequence of f64.
VSub(u, v) == [i \in 1 .. Len(u) |-> FSub(u[i], v[i])]
VAdd(u, v) == [i \in 1 .. Len(u) |-> FAdd(u[i], v[i])]
VMul(u, v) == [i \in 1 .. Len(u) |-> FMul(u[i], v[i])]
VDiv(u, v) == [i \in 1 .. Len(u) |-> FDiv(u[i], v[i])]
VScale(u, t) == [i \in 1 .. Len(u) |-> FMul(u[i], t)]
VDivS(u, t) == [i \in 1 .. Len(u) |-> FDiv(u[i], t)]
VFinite(u) == \A i \in 1 .. Len(u) : IsFinite(u[i])

\* What a call that returns v gives, and what a call that aborts gives.
Value(v) == [ok |-> TRUE, v |-> v]
Abort == [ok |-> FALSE, v |-> <<>>]

\* ------------------------------------------- Jacobians (jacobian.rs)
\* The largest lower and upper bandwidth of a BandedJacobian drawn.
MaxBand == 2
\* The largest dimension of the vectors drawn.
MaxDim == 2

\* The component values the vectors of a Jacobian call are drawn from.
JacVals == {-Scale, 0, 3}
JacVecs(n) == [1 .. n -> JacVals]

\* FullJacobian::solve_jacobian, lines 20-26.
FullJacobian_solve_jacobian(m, bv) ==
    IF Len(bv) = 1
    THEN Value(<<FDiv(bv[1], m[1][1])>>)
    ELSE Abort

BandedJacobian_guard_or(ml, mu) == ml = 0 \/ mu = 0

\* The test of line 45.
BandedJacobian_guard(ml, mu) == ml = 0 /\ mu = 0

\* BandedJacobian::solve_jacobian, lines 44-52.  diags[0] is diags[1] here.
BandedJacobian_solve_jacobian(ml, mu, diags, bv) ==
    IF BandedJacobian_guard(ml, mu)
    THEN Value(VDiv(bv, diags[1]))
    ELSE IF ml < 2 /\ mu < 2
    THEN Abort
    ELSE Abort

\* Jacobian::solve_jacobian on either implementation.
Solve_jacobian(j, bv) ==
    IF j.kind = "full"
    THEN FullJacobian_solve_jacobian(j.m, bv)
    ELSE BandedJacobian_solve_jacobian(j.ml, j.mu, j.diags, bv)

\* FullJacobian::new / from: an n x n matrix.
FullJacobians(n) ==
    { [kind |-> "full", m |-> [i \in 1 .. n |-> IF i = 1 THEN r1 ELSE r2]] :
        r1 \in JacVecs(n), r2 \in JacVecs(n) }

\* BandedJacobian::new, lines 37-40: diags holds ml + mu + 1 vectors.
BandedJacobians(n) ==
    { [kind |-> "banded", ml |-> ml, mu |-> mu,
       diags |-> [i \in 1 .. ml + mu + 1 |-> IF i = 1 THEN d0 ELSE d1]] :
        ml \in 0 .. MaxBand, mu \in 0 .. MaxBand,
        d0 \in JacVecs(n), d1 \in {[i \in 1 .. n |-> Scale]} }

\* A Jacobian is built and is about to be asked to solve against jac_b.
JacInit ==
    /\ \E n \in 1 .. MaxDim :
          /\ jacobian \in FullJacobians(n) \cup BandedJacobians(n)
          /\ jac_b \in JacVecs(n)
    /\ jac_out = Abort
    /\ jac_pc = "call"

\* One call of solve_jacobian: it returns a vector or aborts (todo!()).
JacSolve ==
    /\ jac_pc = "call"
    /\ jac_out' = Solve_jacobian(jacobian, jac_b)
    /\ jac_pc' = IF jac_out'.ok THEN "returned" ELSE "aborted"
    /\ UNCHANGED <<brentVars, vecVars, jacobian, jac_b>>

JacNext == JacSolve

BrentIdle ==
    /\ f = <<"const", 0>> /\ self_tol = 0 /\ maxiter = 0
    /\ lower_bound = 0 /\ upper_bound = 0
    /\ a = 0 /\ b = 0 /\ c = 0 /\ fa = 0 /\ fb = 0 /\ fc = 0
    /\ d = 0 /\ e = 0 /\ s = 0 /\ p = 0 /\ q = 0 /\ xm = 0 /\ r = 0
    /\ tol = 0 /\ iter = 0
    /\ jump = "idle"
    /\ ret = "none" /\ retv = <<>>
    /\ ncalls = 0 /\ evald = {}

InitJac == JacInit /\ BrentIdle /\ VecIdle

SpecJac == InitJac /\ [][JacNext]_vars

\* ------------------------------------------------ the vector solvers
\* The cap max_iter of a vector solver is drawn from 0 .. MaxVIter.
MaxVIter == 2

\* The caller's function of a fixed-point solver (x = f(x)), by kind.
FixFun(fn, v) ==
    LET kind == fn.kind
    IN  CASE kind = "id"    -> v
          [] kind = "const" -> [i \in 1 .. Len(v) |-> Scale]
          [] kind = "half"  -> [i \in 1 .. Len(v) |-> FMul(Half, FAdd(v[i], Scale))]
          [] kind = "sq"    -> [i \in 1 .. Len(v) |->
                                  FSub(FAdd(FMul(v[i], v[i]), v[i]), Lit(2))]
          [] kind = "neg"   -> [i \in 1 .. Len(v) |-> FNeg(v[i])]
          [] OTHER          -> [i \in 1 .. Len(v) |-> v[Len(v) + 1 - i]]

FixFuns == { [kind |-> kd] : kd \in {"id", "const", "half", "sq", "neg", "swap"} }

\* The caller's residual function of a root solver (f(x) = 0), by kind.
RootFun(fn, v) ==
    LET kind == fn.kind
    IN  CASE kind = "sq"   -> [i \in 1 .. Len(v) |-> FSub(FMul(v[i], v[i]), Lit(2))]
          [] kind = "flat" -> [i \in 1 .. Len(v) |-> Scale]
          [] OTHER         -> [i \in 1 .. Len(v) |-> FSub(v[i], Scale)]

\* The initial guesses and the tolerance vectors drawn, by dimension.
InitPoints ==
    { <<0>>, <<Scale>>, <<2 * Scale>>, <<-Scale>>, <<3>>,
      <<0, Scale>>, <<Scale, Scale>>, <<2 * Scale, -Scale>>, <<3, 11>> }
AtolVecs(n) == [1 .. n -> {0, 2}]
RtolVecs(n) == { [i \in 1 .. n |-> 0], [i \in 1 .. n |-> 1] }

\* The locals of a solve that has not started.
VecLocalsFresh ==
    /\ x = <<>> /\ x_prev = <<>> /\ y_prev = <<>> /\ y = <<>> /\ z = <<>>
    /\ jac_inv = <<>> /\ fx = <<>> /\ jac = <<>> /\ k = 0 /\ pc = "entry"
    /\ out = <<>> /\ how = "none" /\ call = 1 /\ first = <<>>
    /\ evals = {} /\ log = <<>> /\ nonfinite = FALSE

\* return v: solve is over.
Return(v, why) ==
    /\ pc' = "returned"
    /\ out' = v
    /\ how' = why

\* A panic (panic!, unwrap of an error, todo!()): solve is over, no value.
Panic(why) ==
    /\ pc' = "panicked"
    /\ how' = why
    /\ UNCHANGED out

vecCfg == <<solver, fun, init, atol, rtol, tolv, max_iter, call, first>>

CapReached_gt(i, cap) == i > cap

\* The range of a solver's loop is used up: its index i has reached cap.
CapReached(i, cap) == i >= cap

\* ---------------------------------------- Steffensen (steffensen.rs)
\* The test of Steffensen::apply, lines 52-58.
Steffensen_converged(x1, x2, at, rt) ==
    \A i \in 1 .. Len(x1) :
        FLt(FAbs(FSub(x1[i], x2[i])),
            FAdd(at[i], FMul(rt[i], FMax(FAbs(x1[i]), FAbs(x2[i])))))

\* Steffensen::apply, lines 44-61: <<converged, y>>.
Steffensen_apply(v) ==
    LET fv == FixFun(fun, v)
    IN  <<Steffensen_converged(fv, v, atol, rtol), fv>>

\* x0 - (x1 - x0).powi(2) * (x2 + x0 - 2. * x1).recip(), lines 76-81.
Aitken(x0, x1, x2) ==
    [i \in 1 .. Len(x0) |->
        FSub(x0[i],
             FMul(FMul(FSub(x1[i], x0[i]), FSub(x1[i], x0[i])),
                  FDiv(Lit(1), FSub(FAdd(x2[i], x0[i]), FMul(Lit(2), x1[i])))))]

\* solve, lines 64-66.
Steffensen_entry ==
    /\ solver = "Steffensen" /\ pc = "entry"
    /\ x' = init
    /\ k' = 0
    /\ pc' = "loop"
    /\ UNCHANGED <<brentVars, jacVars, vecCfg, x_prev, y_prev, y, z, jac_inv,
                   fx, jac, out, how, evals, log, nonfinite>>

\* The first application of an iteration, lines 68-71.
Steffensen_first ==
    /\ solver = "Steffensen" /\ pc = "loop" /\ ~CapReached(k, max_iter)
    /\ LET ap == Steffensen_apply(x)
       IN  /\ y' = ap[2]
           /\ evals' = evals \cup {<<x, ap[2]>>}
           /\ nonfinite' = (nonfinite \/ ~VFinite(ap[2]))
           /\ IF ap[1]
              THEN Return(x, "converged")
              ELSE pc' = "second" /\ UNCHANGED <<out, how>>
    /\ UNCHANGED <<brentVars, jacVars, vecCfg, x, x_prev, y_prev, z, jac_inv,
                   fx, jac, k, log>>

\* The second application and the extrapolation, lines 72-81.
Steffensen_second ==
    /\ solver = "Steffensen" /\ pc = "second"
    /\ LET ap == Steffensen_apply(y)
       IN  /\ z' = ap[2]
           /\ evals' = evals \cup {<<y, ap[2]>>}
           /\ IF ap[1]
              THEN /\ Return(y, "converged")
                   /\ nonfinite' = (nonfinite \/ ~VFinite(ap[2]))
                   /\ UNCHANGED <<x, k>>
              ELSE /\ x' = Aitken(x, y, ap[2])
                   /\ nonfinite' = (nonfinite \/ ~VFinite(ap[2]) \/ ~VFinite(x'))
                   /\ k' = k + 1
                   /\ pc' = "loop"
                   /\ UNCHANGED <<out, how>>
    /\ UNCHANGED <<brentVars, jacVars, vecCfg, x_prev, y_prev, y, jac_inv,
                   fx, jac, log>>

\* The cap is exhausted, line 83.
Steffensen_exit ==
    /\ solver = "Steffensen" /\ pc = "loop" /\ CapReached(k, max_iter)
    /\ Return(x, "cap")
    /\ UNCHANGED <<brentVars, jacVars, vecCfg, x, x_prev, y_prev, y, z, jac_inv,
                   fx, jac, k, evals, log, nonfinite>>

\* ---------------------------------------------- Wegstein (wegstein.rs)
Wegstein_converged_le(x1, x2, at, rt) ==
    \A i \in 1 .. Len(x1) :
        FLe(FAbs(FSub(x1[i], x2[i])),
            FAdd(at[i], FMul(rt[i], FMax(FAbs(x1[i]), FAbs(x2[i])))))

\* The test of Wegstein::apply, lines 52-58.
Wegstein_converged(x1, x2, at, rt) ==
    \A i \in 1 .. Len(x1) :
        FLt(FAbs(FSub(x1[i], x2[i])),
            FAdd(at[i], FMul(rt[i], FMax(FAbs(x1[i]), FAbs(x2[i])))))

\* Wegstein::apply, lines 44-61: <<converged, y>>.
Wegstein_apply(v) ==
    LET fv == FixFun(fun, v)
    IN  <<Wegstein_converged(fv, v, atol, rtol), fv>>

\* solve, lines 64-71.
Wegstein_entry ==
    /\ solver = "Wegstein" /\ pc = "entry"
    /\ x_prev' = init
    /\ LET ap == Wegstein_apply(init)
       IN  /\ y_prev' = ap[2]
           /\ evals' = evals \cup {<<init, ap[2]>>}
           /\ nonfinite' = (nonfinite \/ ~VFinite(ap[2]))
           /\ IF ap[1]
              THEN Return(init, "converged") /\ UNCHANGED x
              ELSE x' = ap[2] /\ pc' = "loop" /\ UNCHANGED <<out, how>>
    /\ k' = 0
    /\ UNCHANGED <<brentVars, jacVars, vecCfg, y, z, jac_inv, fx, jac, log>>

\* One iteration of the loop, lines 74-81.
Wegstein_iter ==
    /\ solver = "Wegstein" /\ pc = "loop" /\ ~CapReached(k, max_iter)
    /\ LET ap == Wegstein_apply(x)
           t == VDiv(VSub(x, x_prev),
                     VSub(VSub(x, ap[2]), VSub(x_prev, y_prev)))
       IN  /\ evals' = evals \cup {<<x, ap[2]>>}
           /\ IF ap[1]
              THEN /\ Return(x, "converged")
                   /\ y' = ap[2]
                   /\ nonfinite' = (nonfinite \/ ~VFinite(ap[2]))
                   /\ UNCHANGED <<x, x_prev, y_prev, k>>
              ELSE \* after the two swaps x_prev is x and y_prev is y
                   /\ x_prev' = x
                   /\ y_prev' = ap[2]
                   /\ y' = y_prev
                   /\ x' = VAdd(VMul(t, VSub(y_prev', x_prev')), x_prev')
                   /\ nonfinite' = (nonfinite \/ ~VFinite(ap[2]) \/ ~VFinite(t)
                                      \/ ~VFinite(x'))
                   /\ k' = k + 1
                   /\ UNCHANGED <<pc, out, how>>
    /\ UNCHANGED <<brentVars, jacVars, vecCfg, z, jac_inv, fx, jac, log>>

\* The cap is exhausted, line 83.
Wegstein_exit ==
    /\ solver = "Wegstein" /\ pc = "loop" /\ CapReached(k, max_iter)
    /\ Return(x, "cap")
    /\ UNCHANGED <<brentVars, jacVars, vecCfg, x, x_prev, y_prev, y, z, jac_inv,
                   fx, jac, k, evals, log, nonfinite>>

\* --------------------------------------- NewtonRaphson (newton.rs)
\* The caller's Jacobian of a root problem: Problem::jac.  The kind "wide"
\* gives a matrix with one column more than rows.
RootJac(fn, v, fv) ==
    LET n == Len(v)
        kind == fn.kind
    IN  CASE kind = "sq"   -> [i \in 1 .. n |-> [j \in 1 .. n |->
                                 IF i = j THEN FMul(Lit(2), v[i]) ELSE 0]]
          [] kind = "flat" -> [i \in 1 .. n |-> [j \in 1 .. n |-> 0]]
          [] kind = "wide" -> [i \in 1 .. n |-> [j \in 1 .. n + 1 |->
                                 IF i = j THEN Scale ELSE 0]]
          [] OTHER         -> [i \in 1 .. n |-> [j \in 1 .. n |->
                                 IF i = j THEN Scale ELSE 0]]

NewtonFuns == { [kind |-> kd] : kd \in {"shift", "sq", "flat", "wide"} }

Newton_small_any(fv, tl) == \E i \in 1 .. Len(fv) : FLt(FAbs(fv[i]), tl[i])

\* The test of line 73: every |f_i| < tol_i.
Newton_small(fv, tl) == \A i \in 1 .. Len(fv) : FLt(FAbs(fv[i]), tl[i])

\* jac.shape()[0] != jac.shape()[1], line 77.
NonSquare(m) == Len(m) # Len(m[1])

\* factorize_into().unwrap().solve(&f).unwrap(), line 84: the solution of
\* m * dx = bv by elimination with row pivoting, for 1 x 1 and 2 x 2; a
\* zero pivot is the error the unwrap panics on.
LinSolve(m, bv) ==
    IF Len(m) = 1
    THEN (IF m[1][1] = 0 THEN Abort ELSE Value(<<FDiv(bv[1], m[1][1])>>))
    ELSE LET top == IF FGe(FAbs(m[1][1]), FAbs(m[2][1])) THEN 1 ELSE 2
             bot == 3 - top
             piv == m[top][1]
             l == FDiv(m[bot][1], piv)
             u22 == FSub(m[bot][2], FMul(l, m[top][2]))
             y2 == FSub(bv[bot], FMul(l, bv[top]))
             dx2 == FDiv(y2, u22)
             dx1 == FDiv(FSub(bv[top], FMul(m[top][2], dx2)), piv)
         IN  IF piv = 0 \/ u22 = 0 THEN Abort ELSE Value(<<dx1, dx2>>)

\* solve, line 70.
Newton_entry ==
    /\ solver = "NewtonRaphson" /\ pc = "entry"
    /\ x' = init
    /\ k' = 0
    /\ pc' = "loop"
    /\ UNCHANGED <<brentVars, jacVars, vecCfg, x_prev, y_prev, y, z, jac_inv,
                   fx, jac, out, how, evals, log, nonfinite>>

\* The residual and its test, lines 72-75.
Newton_fun ==
    /\ solver = "NewtonRaphson" /\ pc = "loop" /\ ~CapReached(k, max_iter)
    /\ fx' = RootFun(fun, x)
    /\ evals' = evals \cup {<<x, fx'>>}
    /\ nonfinite' = (nonfinite \/ ~VFinite(fx'))
    /\ IF Newton_small(fx', tolv)
       THEN /\ Return(x, "converged")
            /\ log' = Append(log, <<"fun", x, TRUE>>)
       ELSE /\ pc' = "jac"
            /\ log' = Append(log, <<"fun", x, FALSE>>)
            /\ UNCHANGED <<out, how>>
    /\ UNCHANGED <<brentVars, jacVars, vecCfg, x, x_prev, y_prev, y, z, jac_inv,
                   jac, k>>

\* The Jacobian at the current point, line 76.
Newton_jac ==
    /\ solver = "NewtonRaphson" /\ pc = "jac"
    /\ jac' = RootJac(fun, x, fx)
    /\ log' = Append(log, <<"jac", x, FALSE>>)
    /\ pc' = "square"
    /\ UNCHANGED <<brentVars, jacVars, vecCfg, x, x_prev, y_prev, y, z, jac_inv,
                   fx, k, out, how, evals, nonfinite>>

\* The squareness check, lines 77-83.
Newton_square ==
    /\ solver = "NewtonRaphson" /\ pc = "square"
    /\ IF NonSquare(jac)
       THEN Panic("nonsquare")
       ELSE pc' = "solve" /\ UNCHANGED <<out, how>>
    /\ UNCHANGED <<brentVars, jacVars, vecCfg, x, x_prev, y_prev, y, z, jac_inv,
                   fx, jac, k, evals, log, nonfinite>>

\* The linear solve and the update of x, line 84.
Newton_solve ==
    /\ solver = "NewtonRaphson" /\ pc = "solve"
    /\ log' = Append(log, <<"solve", x, FALSE>>)
    /\ LET dx == LinSolve(jac, fx)
       IN  IF dx.ok
           THEN /\ x' = VSub(x, dx.v)
                /\ nonfinite' = (nonfinite \/ ~VFinite(x'))
                /\ k' = k + 1
                /\ pc' = "loop"
                /\ UNCHANGED <<out, how>>
           ELSE /\ Panic("singular")
                /\ UNCHANGED <<x, k, nonfinite>>
    /\ UNCHANGED <<brentVars, jacVars, vecCfg, x_prev, y_prev, y, z, jac_inv,
                   fx, jac, evals>>

\* The cap is exhausted, line 86.
Newton_exit ==
    /\ solver = "NewtonRaphson" /\ pc = "loop" /\ CapReached(k, max_iter)
    /\ Return(x, "cap")
    /\ UNCHANGED <<brentVars, jacVars, vecCfg, x, x_prev, y_prev, y, z, jac_inv,
                   fx, jac, k, evals, log, nonfinite>>

\* ------------------------------------------------------ Sand (sand.rs)
\* The caller's jac of Sand: a FullJacobian, or a BandedJacobian of the
\* bandwidths the problem names, holding the Jacobian of the residual.
SandJac(fn, v) ==
    LET m == RootJac([kind |-> fn.kind], v, v)
    IN  IF fn.jtype = "full"
        THEN [kind |-> "full", m |-> m]
        ELSE [kind |-> "banded", ml |-> fn.ml, mu |-> fn.mu,
              diags |-> [i \in 1 .. fn.ml + fn.mu + 1 |->
                            [j \in 1 .. Len(v) |-> m[j][j]]]]

SandFuns ==
    { [kind |-> kd, jtype |-> "full", ml |-> 0, mu |-> 0] :
         kd \in {"shift", "sq", "flat"} }
      \cup { [kind |-> kd, jtype |-> "banded", ml |-> bw[1], mu |-> bw[2]] :
         kd \in {"shift", "sq", "flat"}, bw \in {<<0, 0>>, <<1, 0>>, <<0, 2>>} }

\* The test of line 57: every |f_i| < tol_i.
Sand_small(fv, tl) == \A i \in 1 .. Len(fv) : FLt(FAbs(fv[i]), tl[i])

\* solve, lines 53-54.
Sand_entry ==
    /\ solver = "Sand" /\ pc = "entry"
    /\ x' = init
    /\ k' = 0
    /\ pc' = "loop"
    /\ UNCHANGED <<brentVars, jacVars, vecCfg, x_prev, y_prev, y, z, jac_inv,
                   fx, jac, out, how, evals, log, nonfinite>>

\* One iteration of the loop, lines 56-68; a solve_jacobian that aborts
\* ends the call.
Sand_iter ==
    /\ solver = "Sand" /\ pc = "loop" /\ ~CapReached(k, max_iter)
    /\ fx' = RootFun(fun, x)
    /\ evals' = evals \cup {<<x, fx'>>}
    /\ IF Sand_small(fx', tolv)
       THEN /\ Return(x, "converged")
            /\ nonfinite' = (nonfinite \/ ~VFinite(fx'))
            /\ UNCHANGED <<x, k>>
       ELSE \E k1 \in {Solve_jacobian(SandJac(fun, x), fx')} :
            IF ~k1.ok
            THEN /\ Panic("todo")
                 /\ nonfinite' = (nonfinite \/ ~VFinite(fx'))
                 /\ UNCHANGED <<x, k>>
            ELSE \E k2 \in {Solve_jacobian(
                               SandJac(fun, VSub(x, VScale(k1.v, Half))), fx')} :
                 \E k3 \in {Solve_jacobian(
                               SandJac(fun, VSub(x, VScale(k2.v, Half))), fx')} :
                 \E k4 \in {Solve_jacobian(SandJac(fun, VSub(x, k3.v)), fx')} :
                    /\ x' = VSub(x, VDivS(VAdd(VAdd(k1.v,
                                 VScale(VAdd(k2.v, k3.v), Lit(2))), k4.v), Lit(6)))
                    /\ nonfinite' = (nonfinite \/ ~VFinite(fx') \/ ~VFinite(k1.v)
                                       \/ ~VFinite(k2.v) \/ ~VFinite(k3.v)
                                       \/ ~VFinite(k4.v) \/ ~VFinite(x'))
                    /\ k' = k + 1
                    /\ UNCHANGED <<pc, out, how>>
    /\ UNCHANGED <<brentVars, jacVars, vecCfg, x_prev, y_prev, y, z, jac_inv,
                   jac, log>>

\* The cap is exhausted, line 70.
Sand_exit ==
    /\ solver = "Sand" /\ pc = "loop" /\ CapReached(k, max_iter)
    /\ Return(x, "cap")
    /\ UNCHANGED <<brentVars, jacVars, vecCfg, x, x_prev, y_prev, y, z, jac_inv,
                   fx, jac, k, evals, log, nonfinite>>

\* ------------------------------------------------ Broyden (broyden.rs)
\* Array1::dot: the sum of the products, left to right.
RECURSIVE DotUpTo(_, _, _)
DotUpTo(u, v, i) ==
    IF i = 0 THEN 0 ELSE FAdd(DotUpTo(u, v, i - 1), FMul(u[i], v[i]))

Dot(u, v) == DotUpTo(u, v, Len(u))

\* Array2::dot(&Array1): the matrix-vector product.
MatVec(m, v) == [i \in 1 .. Len(m) |-> Dot(m[i], v)]

\* Array2::from_diag.
FromDiag(g) == [i \in 1 .. Len(g) |-> [j \in 1 .. Len(g) |-> IF i = j THEN g[i] ELSE 0]]

\* a.dot(&b) / df.dot(&df) + &jac_inv, line 83: a is a column, b a row.
RankOne(av, bv, dd, m) ==
    [i \in 1 .. Len(av) |-> [j \in 1 .. Len(bv) |->
        FAdd(FDiv(FMul(av[i], bv[j]), dd), m[i][j])]]

MFinite(m) == \A i \in 1 .. Len(m) : VFinite(m[i])

\* The test of lines 88-94.
Broyden_converged(x1, x2, at, rt) ==
    \A i \in 1 .. Len(x1) :
        FLt(FAbs(FSub(x1[i], x2[i])),
            FAdd(at[i], FMul(rt[i], FMax(FAbs(x1[i]), FAbs(x2[i])))))

\* The first index of the loop of line 77 (1..max_iter).
Broyden_first_k == 1

\* solve, lines 58-75: two evaluations and the diagonal first estimate.
Broyden_entry ==
    /\ solver = "Broyden" /\ pc = "entry"
    /\ LET x0 == init
           x1 == FixFun(fun, x0)
           x2 == FixFun(fun, x1)
           grad_inv == VDiv(VSub(x1, x0), VSub(VSub(VScale(x1, Lit(2)), x0), x2))
       IN  /\ jac_inv' = FromDiag(grad_inv)
           \* after the two swaps x_prev is x1 and y_prev is x2
           /\ x_prev' = x1
           /\ y_prev' = x2
           /\ y' = x1
           /\ x' = VAdd(MatVec(jac_inv', VSub(y_prev', x_prev')), x_prev')
           /\ evals' = evals \cup {<<x0, x1>>, <<x1, x2>>}
           /\ nonfinite' = (nonfinite \/ ~VFinite(x1) \/ ~VFinite(x2)
                              \/ ~VFinite(grad_inv) \/ ~VFinite(x'))
    /\ k' = Broyden_first_k
    /\ pc' = "loop"
    /\ UNCHANGED <<brentVars, jacVars, vecCfg, z, fx, jac, out, how, log>>

\* One iteration of the loop, lines 78-97.
Broyden_iter ==
    /\ solver = "Broyden" /\ pc = "loop" /\ ~CapReached(k, max_iter)
    /\ LET fv == FixFun(fun, x)
           dx == VSub(x, x_prev)
           df == VSub(VSub(x, fv), VSub(x_prev, y_prev))
           av == VSub(dx, MatVec(jac_inv, df))
       IN  /\ jac_inv' = RankOne(av, df, Dot(df, df), jac_inv)
           \* after the two swaps x_prev is x and y_prev is y
           /\ x_prev' = x
           /\ y_prev' = fv
           /\ y' = y_prev
           /\ x' = VAdd(MatVec(jac_inv', VSub(y_prev', x_prev')), x_prev')
           /\ evals' = evals \cup {<<x, fv>>}
           /\ nonfinite' = (nonfinite \/ ~VFinite(fv) \/ ~MFinite(jac_inv')
                              \/ ~VFinite(x'))
    /\ IF Broyden_converged(x', x_prev', atol, rtol)
       THEN Return(x', "converged") /\ UNCHANGED k
       ELSE k' = k + 1 /\ UNCHANGED <<pc, out, how>>
    /\ UNCHANGED <<brentVars, jacVars, vecCfg, z, fx, jac, log>>

\* The cap is exhausted, line 99.
Broyden_exit ==
    /\ solver = "Broyden" /\ pc = "loop" /\ CapReached(k, max_iter)
    /\ Return(x, "cap")
    /\ UNCHANGED <<brentVars, jacVars, vecCfg, x, x_prev, y_prev, y, z, jac_inv,
                   fx, jac, k, evals, log, nonfinite>>

\* ------------------------------------------------- the calls of solve
\* The caller passes a converged result back as the initial guess of a
\* second call of solve on the same solver with the same tolerances.
SolveAgain ==
    /\ solver \in {"NewtonRaphson", "Sand", "Steffensen", "Wegstein", "Broyden"}
    /\ pc = "returned" /\ how = "converged" /\ call = 1
    /\ call' = 2
    /\ first' = out
    /\ init' = out
    /\ x' = <<>> /\ x_prev' = <<>> /\ y_prev' = <<>> /\ y' = <<>> /\ z' = <<>>
    /\ jac_inv' = <<>> /\ fx' = <<>> /\ jac' = <<>> /\ k' = 0 /\ pc' = "entry"
    /\ out' = <<>> /\ how' = "none"
    /\ evals' = {} /\ log' = <<>> /\ nonfinite' = FALSE
    /\ UNCHANGED <<brentVars, jacVars, solver, fun, atol, rtol, tolv, max_iter>>

\* A solver is built and solve is about to be called on it.
VecInit ==
    /\ solver \in {"NewtonRaphson", "Sand", "Steffensen", "Wegstein", "Broyden"}
    /\ fun \in (CASE solver = "NewtonRaphson" -> NewtonFuns
                  [] solver = "Sand" -> SandFuns
                  [] OTHER -> FixFuns)
    /\ init \in InitPoints
    /\ max_iter \in 0 .. MaxVIter
    /\ IF solver \in {"NewtonRaphson", "Sand"}
       THEN /\ tolv \in AtolVecs(Len(init))
            /\ atol = <<>> /\ rtol = <<>>
       ELSE /\ atol \in AtolVecs(Len(init))
            /\ rtol \in RtolVecs(Len(init))
            /\ tolv = <<>>
    /\ VecLocalsFresh

VecNext ==
    \/ Steffensen_entry \/ Steffensen_first \/ Steffensen_second \/ Steffensen_exit
    \/ Wegstein_entry \/ Wegstein_iter \/ Wegstein_exit
    \/ Newton_entry \/ Newton_fun \/ Newton_jac \/ Newton_square
    \/ Newton_solve \/ Newton_exit
    \/ Sand_entry \/ Sand_iter \/ Sand_exit
    \/ Broyden_entry \/ Broyden_iter \/ Broyden_exit
    \/ SolveAgain

InitVec == VecInit /\ BrentIdle /\ JacIdle

SpecVec == InitVec /\ [][VecNext]_vars

\* ------------------------------------------------------- claims on Brentq
\* C1: once the loop of Brentq::solve is entered on an accepted bracket,
\* the call eventually returns Ok(b) or Err(NotConverged(a, b)).
C1_Terminates == (jump = "L20") ~> (ret \in {"Ok", "NotConverged"})

C3_NotConvergedOnlyUnconverged ==
    ret = "NotConverged" => ~(FLe(FAbs(xm), tol) \/ FEq(fb, 0))

C6_BandedDiagonalOnly ==
    jac_pc # "call" /\ jacobian.kind = "banded" =>
        /\ jac_out.ok <=> (jacobian.ml = 0 /\ jacobian.mu = 0)
        /\ jac_pc = (IF jacobian.ml = 0 /\ jacobian.mu = 0
                     THEN "returned" ELSE "aborted")
        /\ jac_out.ok =>
              /\ Len(jac_out.v) = Len(jac_b)
              /\ \A i \in 1 .. Len(jac_b) :
                    jac_out.v[i] = FDiv(jac_b[i], jacobian.diags[1][i])

C6_Witness ==
    /\ jac_pc = "returned" /\ jacobian.kind = "banded"
    /\ Len(jac_b) = 2 /\ jac_out.v = <<Scale, NInf>>

\* C7: FullJacobian::solve_jacobian(b) returns a vector of length n for a
\* square Jacobian of any dimension n >= 1, and [b[0] / J[0,0]] when n = 1.
C7_FullSolvesAnyDimension ==
    jac_pc # "call" /\ jacobian.kind = "full" =>
        /\ jac_out.ok
        /\ Len(jac_out.v) = Len(jac_b)
        /\ Len(jac_b) = 1 => jac_out.v[1] = FDiv(jac_b[1], jacobian.m[1][1])


\* ----------------------------------------------- claims on the solvers
\* The common convergence predicate between a point v and a value fv, as
\* the spec words it: every |fv_i - v_i| < atol_i + rtol_i * max(|v_i|, |fv_i|).
CommonPredicate(v, fv) ==
    \A i \in 1 .. Len(v) :
        /\ FAbs(FSub(fv[i], v[i])) # NaN
        /\ FAbs(FSub(fv[i], v[i])) <
              FAdd(atol[i], FMul(rtol[i], FMax(FAbs(v[i]), FAbs(fv[i]))))

\* C5: a second call of solve, started from the point the first call
\* returned on convergence, computes no non-finite value, does not abort
\* and returns that same point.
C5_Idempotent ==
    call = 2 =>
        /\ ~nonfinite
        /\ pc # "panicked"
        /\ pc = "returned" => out = first

\* The residual at v is below the tolerance in every component.
ResidualBelowTol(v) ==
    \A i \in 1 .. Len(v) :
        LET ri == FAbs(RootFun(fun, v)[i])
        IN  ri # NaN /\ ri < tolv[i]

\* C8: NewtonRaphson::solve returns x right after a residual evaluation at
\* x that passed the tolerance test, with no Jacobian evaluation, check or
\* linear solve after it; every Jacobian evaluation at a point follows a
\* residual evaluation at the same point that failed the test; and a
\* non-square Jacobian aborts before any linear solve of it.
C8_NewtonOrder ==
    solver = "NewtonRaphson" =>
        /\ how = "converged" =>
              /\ Len(log) > 0 /\ log[Len(log)][1] = "fun"
              /\ log[Len(log)][2] = out
              /\ ResidualBelowTol(out)
        /\ \A i \in 1 .. Len(log) :
              log[i][1] = "jac" =>
                 /\ i > 1 /\ log[i - 1][1] = "fun"
                 /\ log[i - 1][2] = log[i][2]
                 /\ ~ResidualBelowTol(log[i][2])
        /\ \A i \in 1 .. Len(log) :
              log[i][1] = "solve" => i > 1 /\ log[i - 1][1] = "jac"
        /\ pc = "solve" => Len(jac) = Len(jac[1])
        /\ how = "nonsquare" =>
              /\ pc = "panicked" /\ log[Len(log)][1] = "jac"
              /\ Len(jac) # Len(jac[1])

C8_Witness ==
    /\ solver = "NewtonRaphson" /\ call = 1
    /\ pc = "returned" /\ how = "converged"
    /\ Len(log) >= 4 /\ log[Len(log) - 1][1] = "solve"

\* The iterations of the main loop made so far in this call.
Iterations == IF solver = "Broyden" /\ pc # "entry" THEN k - 1 ELSE k

\* The rank of the position inside one iteration of a call.
PcRank ==
    CASE pc = "entry" -> 5
      [] pc = "loop" -> 4
      [] pc \in {"second", "jac"} -> 3
      [] pc = "square" -> 2
      [] pc = "solve" -> 1
      [] OTHER -> 0

\* The steps a caller's two calls of solve can still take, at most.
Measure ==
    (2 - call) * 100 + (IF max_iter > k THEN max_iter - k ELSE 0) * 8 + PcRank

\* C9: a call of solve ends, as every step of it lowers a measure that
\* stays a natural number; its main loop makes at most max_iter
\* iterations; a call that ends because the cap is reached returns the
\* last computed iterate x as a plain value; and a call aborts only in the
\* Jacobian or linear-solve capability, never because of the cap.
C9_SilentCap ==
    /\ [][Measure' < Measure]_vars
    /\ [](solver # "none" =>
            /\ Measure >= 0
            /\ Iterations <= max_iter
            /\ how = "cap" =>
                  /\ pc = "returned" /\ out = x
                  /\ Iterations >= max_iter - 1
                  /\ solver # "Broyden" => Iterations = max_iter
            /\ pc = "panicked" =>
                  \/ /\ solver = "NewtonRaphson"
                     /\ Len(jac) # Len(jac[1]) \/ ~LinSolve(jac, fx).ok
                  \/ /\ solver = "Sand"
                     /\ ~Solve_jacobian(SandJac(fun, x), fx).ok)

C9_Witness ==
    /\ solver = "Broyden" /\ pc = "returned" /\ how = "cap"
    /\ max_iter = 2 /\ k = 2 /\ VFinite(out)

\* C10: when Steffensen::solve or Wegstein::solve returns before its cap
\* is exhausted, the returned v is a point at which f was evaluated in the
\* call and the common predicate holds between v and f(v); Steffensen
\* extrapolates only after both of its tests failed, and Wegstein updates
\* its history only after the test on the newest value failed.
C10_ReturnsTestedPoint ==
    /\ [](solver \in {"Steffensen", "Wegstein"} /\ how = "converged" =>
            /\ pc = "returned"
            /\ <<out, FixFun(fun, out)>> \in evals
            /\ CommonPredicate(out, FixFun(fun, out)))
    /\ [][/\ (solver = "Steffensen" /\ pc = "second" /\ pc' = "loop") =>
                /\ y = FixFun(fun, x) /\ ~CommonPredicate(x, y)
                /\ z' = FixFun(fun, y) /\ ~CommonPredicate(y, z')
                /\ x' = Aitken(x, y, z')
          /\ (solver = "Wegstein" /\ pc = "loop" /\ k' = k + 1) =>
                /\ ~CommonPredicate(x, FixFun(fun, x))
                /\ x_prev' = x /\ y_prev' = FixFun(fun, x)]_vars

C10_Witness ==
    /\ solver = "Steffensen" /\ pc = "returned" /\ how = "converged"
    /\ call = 1 /\ k = 1 /\ out = y /\ out # x


\* ------------------------------------------- more claims on Brentq
\* Two residuals do not have the same strict sign: the first is zero, or
\* their signs differ.
NotSameStrictSign(u, v) ==
    u = 0 \/ (u # NaN /\ v # NaN /\ Sgn(u) # Sgn(v))

\* C11: every time control reaches the termination test of L40, f(b) and
\* f(c) do not have the same strict sign and |f(b)| <= |f(c)|.
C11_BracketInvariant ==
    (jump = "L40" /\ ret = "none") =>
        /\ NotSameStrictSign(Call(f, b), Call(f, c))
        /\ FLe(FAbs(Call(f, b)), FAbs(Call(f, c)))

\* The calls of f made after the two endpoint evaluations.
InteriorCalls == IF ncalls > 2 THEN ncalls - 2 ELSE 0

\* C12: the calls of f after the two endpoint evaluations never exceed
\* maxiter + 1; Err(NotConverged(..)) is returned only after exactly
\* maxiter + 1 of them, so with maxiter = 0 after one interior evaluation.
C12_BoundedEvaluations ==
    /\ InteriorCalls <= maxiter + 1
    /\ ret = "NotConverged" =>
          /\ ncalls = 2 + maxiter + 1
          /\ maxiter = 0 => (ncalls = 3 /\ Cardinality(evald) <= 3)
    /\ ret = "Failed" => ncalls = 2

C12_Witness ==
    /\ ret = "NotConverged" /\ maxiter = 0 /\ ncalls = 3
    /\ b \in evald /\ b \notin {lower_bound, upper_bound}

====
